---------------------------- MODULE Spec2Model ----------------------------
(***************************************************************************)
(* A model of protocol/decode.go: the byte-budgeted cursor (decoder), its  *)
(* primitive and variable-length codecs, the decode-plan compiler, the     *)
(* versioned plan cache, the reader pool and Unmarshal.                    *)
(*                                                                         *)
(* The cursor's methods are operators from a cursor record to a cursor     *)
(* record (and a returned value); the actions of the specifications apply  *)
(* them.  Three specifications share the variables:                        *)
(*   Spec           one cursor on one source, any sequence of its methods  *)
(*   SpecUnmarshal  concurrent Unmarshal calls on the plan cache and pool  *)
(*   SpecDecode     compiled plans (classic and flexible) run on a cursor  *)
(***************************************************************************)
EXTENDS Integers, Sequences, FiniteSets, TLC

VARIABLES
    d,          \* Spec, SpecDecode: the cursor (a decoder record)
    op,         \* the last operation applied to the cursor: its kind, and
                \* whether the sticky error was already set when it began
    frame,      \* the frame the cursor was last Reset to: [n, start]
    maps,       \* SpecUnmarshal: the heap of map objects, id -> (key -> plan)
    unmarshalers, \* the atomic.Value: the id of the published map, 0 for none
    decoders,   \* the sync.Pool: a bag of idle cursor records
    procs,      \* the goroutines inside Unmarshal: their locals and position
    hist,       \* SpecUnmarshal: ghost record of what was published and compiled
    plan,       \* SpecDecode: the compiled plan under execution
    out         \* SpecDecode: the destination value and the decode log

vars == <<d, op, frame, maps, unmarshalers, decoders, procs, hist, plan, out>>

(***************************************************************************)
(* Bounds of the model.                                                    *)
(***************************************************************************)
\* Sources hold every byte sequence up to this length ...
MaxLen == 2
\* ... and runs of continuation bytes of the four lengths up to this
\* one (past the longest varint), each followed by a short tail.
MaxRun == 12
\* The longest tail that follows a run.
MaxTail == 1

\* The byte values sources are made of: zero, two small lengths, and 0xFF
\* (continuation bit set, all payload bits set, -1 as a signed byte).
Bytes == {0, 1, 2, 255}

Min(a, b) == IF a < b THEN a ELSE b

RECURSIVE SeqsUpTo(_, _)
SeqsUpTo(S, n) ==
    IF n = 0 THEN {<<>>}
    ELSE LET shorter == SeqsUpTo(S, n - 1)
         IN  shorter \cup {Append(s, x) : s \in {t \in shorter : Len(t) = n - 1}, x \in S}

RunOf(b, k) == [i \in 1..k |-> b]

Sources ==
    SeqsUpTo(Bytes, MaxLen)
      \cup {RunOf(255, k) \o t : k \in (MaxRun - 3)..MaxRun, t \in SeqsUpTo({0, 1}, MaxTail)}

(***************************************************************************)
(* Errors.  NoErr is Go's nil error.                                       *)
(***************************************************************************)
NoErr == "nil"
EOF == "io.EOF"
ErrUnexpectedEOF == "io.ErrUnexpectedEOF"
ErrVarInt == "cannot decode varint from input stream"
ErrUnsignedVarInt == "cannot decode unsigned varint from input stream"
ErrNegativeCount == "bufio: negative count"

(***************************************************************************)
(* 64-bit words.  TLC's integers are 32 bits wide, so a uint64 is kept as  *)
(* three limbs: lo holds bits 0..27, mid bits 28..55, hi bits 56..63.      *)
(***************************************************************************)
Limb == 2^28
U64Zero == [lo |-> 0, mid |-> 0, hi |-> 0]

\* U64OrShift as it would be if a shift by 63 lost the whole group.
U64OrShift_loses63(x, g, s) ==
    IF s < 28 THEN [x EXCEPT !.lo = @ + g * 2^s]
    ELSE IF s < 56 THEN [x EXCEPT !.mid = @ + g * 2^(s - 28)]
    ELSE IF s = 56 THEN [x EXCEPT !.hi = @ + g]
    ELSE x

\* x | uint64(g) << s for a 7-bit group g that lands on bits that are still 0
\* in x; s is a multiple of 7.  Bits at or beyond 64 are shifted out.
U64OrShift(x, g, s) ==
    IF s < 28 THEN [x EXCEPT !.lo = @ + g * 2^s]
    ELSE IF s < 56 THEN [x EXCEPT !.mid = @ + g * 2^(s - 28)]
    ELSE IF s = 56 THEN [x EXCEPT !.hi = @ + g]
    ELSE IF s = 63 THEN [x EXCEPT !.hi = @ + (g % 2) * 128]
    ELSE x

\* x >> 1
U64Shr1(x) ==
    [lo  |-> (x.lo \div 2) + (x.mid % 2) * 2^27,
     mid |-> (x.mid \div 2) + (x.hi % 2) * 2^27,
     hi  |-> x.hi \div 2]

\* x - 1, for x # 0
U64Dec(x) ==
    IF x.lo > 0 THEN [x EXCEPT !.lo = @ - 1]
    ELSE IF x.mid > 0 THEN [x EXCEPT !.lo = Limb - 1, !.mid = @ - 1]
    ELSE [lo |-> Limb - 1, mid |-> Limb - 1, hi |-> x.hi - 1]

\* Go's int(x) of a uint64 (a 64-bit int), kept exact from -2^28 to 2^28 and
\* saturated outside: every budget and every source of the model is far
\* shorter, so a comparison against them is decided the same way.
IntOfU64(x) ==
    IF x.hi >= 128
    THEN IF x.hi = 255 /\ x.mid = Limb - 1 THEN x.lo - Limb ELSE 0 - Limb
    ELSE IF x.hi = 0 /\ x.mid = 0 THEN x.lo ELSE Limb

\* An int64 as the code of readVarInt computes it: int64(x>>1) ^ -(int64(x)&1),
\* the word m = x>>1 xor-ed with a mask of all zeros (neg FALSE: the value is
\* m) or all ones (neg TRUE: the value is -m - 1).
I64Zero == [neg |-> FALSE, m |-> U64Zero]
ZigZag(x) == [neg |-> (x.lo % 2 = 1), m |-> U64Shr1(x)]

(***************************************************************************)
(* Fixed-width big-endian two's-complement integers.                       *)
(***************************************************************************)
Signed8(b) == IF b >= 128 THEN b - 256 ELSE b

readInt8(b) == Signed8(b[1])

\* readInt16 as it would be if it read the two bytes low byte first.
readInt16_littleEndian(b) == Signed8(b[2]) * 256 + b[1]

readInt16(b) == Signed8(b[1]) * 256 + b[2]

readInt32(b) == Signed8(b[1]) * 2^24 + b[2] * 2^16 + b[3] * 2^8 + b[4]

\* An int64 as its signed high 32 bits and its low 32 bits in two halves.
readInt64(b) ==
    [hi |-> readInt32(SubSeq(b, 1, 4)), lo1 |-> b[5] * 256 + b[6], lo0 |-> b[7] * 256 + b[8]]

Int64Zero == [hi |-> 0, lo1 |-> 0, lo0 |-> 0]

(***************************************************************************)
(* The underlying byte source: a *bytes.Reader (disc FALSE) or a           *)
(* *bufio.Reader (disc TRUE, it implements the discarder interface).       *)
(***************************************************************************)
NewReader(data, disc) == [data |-> data, pos |-> 0, disc |-> disc]

\* reader.Read(b) with len(b) = len: up to len bytes, io.EOF at the end.
srcRead(r, len) ==
    IF r.pos >= Len(r.data)
    THEN [r |-> r, n |-> 0, err |-> EOF, b |-> <<>>]
    ELSE LET n == Min(len, Len(r.data) - r.pos)
         IN  [r |-> [r EXCEPT !.pos = @ + n], n |-> n, err |-> NoErr,
              b |-> SubSeq(r.data, r.pos + 1, r.pos + n)]

\* The discarder interface: Discard(n) skips n bytes, or fewer with an error.
srcDiscard(r, n) ==
    IF n < 0 THEN [r |-> r, n |-> 0, err |-> ErrNegativeCount]
    ELSE LET k == Min(n, Len(r.data) - r.pos)
         IN  [r |-> [r EXCEPT !.pos = @ + k], n |-> k,
              err |-> IF k < n THEN EOF ELSE NoErr]

(***************************************************************************)
(* The cursor.  crc32 is the running checksum, kept as the bytes fed to    *)
(* crc32.Update since it was last zero (the empty sequence is the value    *)
(* 0); table is the polynomial table or "nil".  The scratch buffer is not   *)
(* kept: a fixed-width read fills it and reads it back within one method,  *)
(* so it carries nothing from one method to the next.  panic is not a      *)
(* field of the Go struct: it records that a method panicked, after which  *)
(* the goroutine runs nothing more of the decode.                          *)
(***************************************************************************)
NilTable == "nil"
CrcZero == <<>>

\* The one element of a singleton set.  A value x that a definition uses more
\* than once is bound as Only({body : x \in {e}}), which evaluates e once.
Only(S) == CHOOSE x \in S : TRUE

NewDecoder(r) ==
    [reader |-> r, remain |-> 0, err |-> NoErr,
     table |-> NilTable, crc32 |-> CrcZero, panic |-> FALSE]

Ret(dd, v) == [d |-> dd, v |-> v]

\* Reset as it would be if it left the sticky error and the checksum alone.
Reset_keepsErr(dd, r, n) == [dd EXCEPT !.reader = r, !.remain = n]

Reset(dd, r, n) ==
    [dd EXCEPT !.reader = r, !.remain = n, !.err = NoErr,
               !.table = NilTable, !.crc32 = CrcZero]

crc32Update(crc, table, b) == crc \o b

\* Read as it would be without its first test, the one of the sticky error.
Read_skipsErrTest(dd, len) ==
    IF dd.panic THEN [d |-> dd, n |-> 0, err |-> NoErr, b |-> <<>>]
    ELSE IF dd.remain = 0 THEN [d |-> dd, n |-> 0, err |-> EOF, b |-> <<>>]
    ELSE IF len > dd.remain /\ dd.remain < 0
    THEN [d |-> [dd EXCEPT !.panic = TRUE], n |-> 0, err |-> NoErr, b |-> <<>>]
    ELSE Only({ [d |-> [dd EXCEPT !.reader = s.r,
                                  !.crc32 = IF s.n > 0 /\ dd.table # NilTable
                                            THEN crc32Update(@, dd.table, s.b) ELSE @,
                                  !.remain = @ - s.n],
                 n |-> s.n, err |-> s.err, b |-> s.b]
                : s \in {srcRead(dd.reader, Min(len, dd.remain))} })

\* decoder.Read(b) with len(b) = len.  b[:d.remain] panics when remain < 0.
Read(dd, len) ==
    IF dd.panic THEN [d |-> dd, n |-> 0, err |-> NoErr, b |-> <<>>]
    ELSE IF dd.err # NoErr THEN [d |-> dd, n |-> 0, err |-> dd.err, b |-> <<>>]
    ELSE IF dd.remain = 0 THEN [d |-> dd, n |-> 0, err |-> EOF, b |-> <<>>]
    ELSE IF len > dd.remain /\ dd.remain < 0
    THEN [d |-> [dd EXCEPT !.panic = TRUE], n |-> 0, err |-> NoErr, b |-> <<>>]
    ELSE Only({ [d |-> [dd EXCEPT !.reader = s.r,
                                  !.crc32 = IF s.n > 0 /\ dd.table # NilTable
                                            THEN crc32Update(@, dd.table, s.b) ELSE @,
                                  !.remain = @ - s.n],
                 n |-> s.n, err |-> s.err, b |-> s.b]
                : s \in {srcRead(dd.reader, Min(len, dd.remain))} })

done(dd) == dd.remain = 0 \/ dd.err # NoErr

setCRC(dd, table) == [dd EXCEPT !.table = table, !.crc32 = CrcZero]

\* io.ReadFull(d, b) with len(b) = len: Read until b is full or Read fails;
\* io.EOF after some bytes becomes io.ErrUnexpectedEOF.
RECURSIVE ioReadAtLeast(_, _, _)
ioReadAtLeast(dd, len, got) ==
    IF Len(got) >= len THEN [d |-> dd, b |-> got, err |-> NoErr]
    ELSE Only({ IF r.d.panic THEN [d |-> r.d, b |-> got, err |-> NoErr]
                ELSE IF r.err # NoErr
                THEN [d |-> r.d, b |-> got \o r.b,
                      err |-> IF Len(got) + r.n >= len THEN NoErr
                              ELSE IF Len(got) + r.n > 0 /\ r.err = EOF
                                   THEN ErrUnexpectedEOF ELSE r.err]
                ELSE ioReadAtLeast(r.d, len, got \o r.b)
                : r \in {Read(dd, len - Len(got))} })

ioReadFull(dd, len) == ioReadAtLeast(dd, len, <<>>)

\* io.Copy(w, d): Read with a 32 KiB buffer until Read fails; io.EOF ends the
\* copy without an error.  b is what the sink received, c its length.
RECURSIVE ioCopyLoop(_, _)
ioCopyLoop(dd, got) ==
    Only({ IF r.d.panic THEN [d |-> r.d, c |-> Len(got), b |-> got, err |-> NoErr]
           ELSE IF r.err # NoErr
           THEN [d |-> r.d, c |-> Len(got) + r.n, b |-> got \o r.b,
                 err |-> IF r.err = EOF THEN NoErr ELSE r.err]
           ELSE ioCopyLoop(r.d, got \o r.b)
           : r \in {Read(dd, 32 * 1024)} })

ioCopy(dd) == ioCopyLoop(dd, <<>>)

RECURSIVE setError(_, _)
RECURSIVE discard(_, _)

discardAll(dd) == discard(dd, dd.remain)

discard(dd, n) ==
    IF dd.panic THEN dd
    ELSE IF dd.reader.disc
    THEN Only({ setError([dd EXCEPT !.reader = s.r, !.remain = @ - s.n], s.err)
                : s \in {srcDiscard(dd.reader, IF n > dd.remain THEN dd.remain ELSE n)} })
    ELSE Only({ setError(c.d, c.err) : c \in {ioCopy(dd)} })

\* setError as it would be if a later error replaced the one already set.
setError_lastWins(dd, err) ==
    IF dd.panic THEN dd
    ELSE IF err # NoErr /\ err # dd.err
    THEN discardAll([dd EXCEPT !.err = err])
    ELSE dd

setError(dd, err) ==
    IF dd.panic THEN dd
    ELSE IF dd.err = NoErr /\ err # NoErr
    THEN discardAll([dd EXCEPT !.err = err])
    ELSE dd

\* make([]byte, n) panics for a negative n.
\* read as it would be if it dropped the error of io.ReadFull.
read_dropsError(dd, n) ==
    IF dd.panic THEN Ret(dd, <<>>)
    ELSE IF n < 0 THEN Ret([dd EXCEPT !.panic = TRUE], <<>>)
    ELSE Only({ Ret(r.d, r.b) : r \in {ioReadFull(dd, n)} })

read(dd, n) ==
    IF dd.panic THEN Ret(dd, <<>>)
    ELSE IF n < 0 THEN Ret([dd EXCEPT !.panic = TRUE], <<>>)
    ELSE Only({ Ret(setError(r.d, r.err), r.b) : r \in {ioReadFull(dd, n)} })

\* writeTo as it would be if it did not restore the budget after the copy
\* (d.remain = limit - int(c)).
writeTo_keepsCap(dd, n) ==
    IF dd.panic THEN Ret(dd, <<>>)
    ELSE Only({ IF c.d.panic THEN Ret(c.d, c.b)
                ELSE Ret(setError(c.d, IF c.c < n /\ c.err = NoErr
                                       THEN ErrUnexpectedEOF ELSE c.err),
                         c.b)
                : c \in {ioCopy(IF n < dd.remain THEN [dd EXCEPT !.remain = n] ELSE dd)} })

writeTo(dd, n) ==
    IF dd.panic THEN Ret(dd, <<>>)
    ELSE Only({ IF c.d.panic THEN Ret(c.d, c.b)
                ELSE Ret(setError([c.d EXCEPT !.remain = dd.remain - c.c],
                                  IF c.c < n /\ c.err = NoErr
                                  THEN ErrUnexpectedEOF ELSE c.err),
                         c.b)
                : c \in {ioCopy(IF n < dd.remain THEN [dd EXCEPT !.remain = n] ELSE dd)} })

\* readFull(b) with len(b) = len; b is what was read into it.
readFull(dd, len) ==
    Only({ [d |-> setError(r.d, r.err), ok |-> Len(r.b) = len /\ ~r.d.panic, b |-> r.b]
           : r \in {ioReadFull(dd, len)} })

readByte(dd) ==
    Only({ IF r.ok THEN Ret(r.d, r.b[1]) ELSE Ret(r.d, 0) : r \in {readFull(dd, 1)} })

ReadByte(dd) ==
    Only({ [d |-> r.d, v |-> r.v, err |-> r.d.err] : r \in {readByte(dd)} })

readBool(dd) ==
    Only({ Ret(r.d, r.v # 0) : r \in {readByte(dd)} })

dReadInt8(dd) ==
    Only({ IF r.ok THEN Ret(r.d, readInt8(r.b)) ELSE Ret(r.d, 0)
           : r \in {readFull(dd, 1)} })

dReadInt16(dd) ==
    Only({ IF r.ok THEN Ret(r.d, readInt16(r.b)) ELSE Ret(r.d, 0)
           : r \in {readFull(dd, 2)} })

dReadInt32(dd) ==
    Only({ IF r.ok THEN Ret(r.d, readInt32(r.b)) ELSE Ret(r.d, 0)
           : r \in {readFull(dd, 4)} })

dReadInt64(dd) ==
    Only({ IF r.ok THEN Ret(r.d, readInt64(r.b)) ELSE Ret(r.d, Int64Zero)
           : r \in {readFull(dd, 8)} })

(***************************************************************************)
(* Variable-length integers: at most MaxVarintLen groups of 7 bits, least  *)
(* significant group first, the high bit of a byte announcing another.     *)
(***************************************************************************)
MaxVarintLen == 11

\* The loop of readVarInt and readUnsignedVarInt: n groups left, x the word
\* so far, s the shift.  It ends on a byte without the continuation bit
\* (ok TRUE) or when n reaches 0 (ok FALSE).
RECURSIVE varintLoop(_, _, _, _)
varintLoop(dd, n, x, s) ==
    IF n <= 0 THEN [d |-> dd, x |-> x, ok |-> FALSE]
    ELSE Only({ IF r.v < 128
                THEN [d |-> r.d, x |-> U64OrShift(x, r.v, s), ok |-> TRUE]
                ELSE Only({ varintLoop(r.d, n - 1, y, s + 7)
                            : y \in {U64OrShift(x, r.v % 128, s)} })
                : r \in {readByte(dd)} })

varintStart(dd) == IF MaxVarintLen > dd.remain THEN dd.remain ELSE MaxVarintLen

readVarInt(dd) ==
    Only({ IF r.ok THEN Ret(r.d, ZigZag(r.x)) ELSE Ret(setError(r.d, ErrVarInt), I64Zero)
           : r \in {varintLoop(dd, varintStart(dd), U64Zero, 0)} })

readUnsignedVarInt(dd) ==
    Only({ IF r.ok THEN Ret(r.d, r.x) ELSE Ret(setError(r.d, ErrUnsignedVarInt), U64Zero)
           : r \in {varintLoop(dd, varintStart(dd), U64Zero, 0)} })

\* int(n) of the int64 of readVarInt, for n >= 0.
IntOfI64(n) == IntOfU64(n.m)

(***************************************************************************)
(* Strings and byte sequences.  A string is the sequence of its bytes; a   *)
(* nil byte sequence and an empty one are both <<>>.                       *)
(***************************************************************************)
bytesToString(b) == b

\* readString as it would be if only the length -1 stood for the null string.
readString_onlyMinusOne(dd) ==
    Only({ IF n.v = 0 - 1 THEN Ret(n.d, <<>>)
           ELSE Only({ Ret(r.d, bytesToString(r.v)) : r \in {read(n.d, n.v)} })
           : n \in {dReadInt16(dd)} })

readString(dd) ==
    Only({ IF n.v < 0 THEN Ret(n.d, <<>>)
           ELSE Only({ Ret(r.d, bytesToString(r.v)) : r \in {read(n.d, n.v)} })
           : n \in {dReadInt16(dd)} })

readVarString(dd) ==
    Only({ IF n.v.neg THEN Ret(n.d, <<>>)
           ELSE Only({ Ret(r.d, bytesToString(r.v)) : r \in {read(n.d, IntOfI64(n.v))} })
           : n \in {readVarInt(dd)} })

readCompactString(dd) ==
    Only({ IF n.v = U64Zero THEN Ret(n.d, <<>>)
           ELSE Only({ Ret(r.d, bytesToString(r.v))
                       : r \in {read(n.d, IntOfU64(U64Dec(n.v)))} })
           : n \in {readUnsignedVarInt(dd)} })

readBytes(dd) ==
    Only({ IF n.v < 0 THEN Ret(n.d, <<>>) ELSE read(n.d, n.v) : n \in {dReadInt32(dd)} })

\* The ...To readers return [d, v: whether the copy succeeded, w: the bytes
\* the sink received].
copied(r) == [d |-> r.d, v |-> r.d.err = NoErr /\ ~r.d.panic, w |-> r.v]

readBytesTo(dd) ==
    Only({ IF n.v < 0 THEN [d |-> n.d, v |-> FALSE, w |-> <<>>]
           ELSE Only({ copied(r) : r \in {writeTo(n.d, n.v)} })
           : n \in {dReadInt32(dd)} })

readVarBytes(dd) ==
    Only({ IF n.v.neg THEN Ret(n.d, <<>>) ELSE read(n.d, IntOfI64(n.v))
           : n \in {readVarInt(dd)} })

readVarBytesTo(dd) ==
    Only({ IF n.v.neg THEN [d |-> n.d, v |-> FALSE, w |-> <<>>]
           ELSE Only({ copied(r) : r \in {writeTo(n.d, IntOfI64(n.v))} })
           : n \in {readVarInt(dd)} })

readCompactBytes(dd) ==
    Only({ IF n.v = U64Zero THEN Ret(n.d, <<>>) ELSE read(n.d, IntOfU64(U64Dec(n.v)))
           : n \in {readUnsignedVarInt(dd)} })

readCompactBytesTo(dd) ==
    Only({ IF n.v = U64Zero THEN [d |-> n.d, v |-> FALSE, w |-> <<>>]
           ELSE Only({ copied(r) : r \in {writeTo(n.d, IntOfU64(U64Dec(n.v)))} })
           : n \in {readUnsignedVarInt(dd)} })

(***************************************************************************)
(* Shapes (reflect.Type) and field tags.  A struct field carries the tags  *)
(* of its version ranges in declaration order.                             *)
(***************************************************************************)
Prim(k) == [kind |-> k]
SliceOf(e) == [kind |-> "slice", elem |-> e]
StructOf(name, fields) == [kind |-> "struct", name |-> name, fields |-> fields]

structTag(min, max, id) ==
    [MinVersion |-> min, MaxVersion |-> max, TagID |-> id, Compact |-> FALSE, Nullable |-> FALSE]

Field(name, typ, tags) == [name |-> name, typ |-> typ, tags |-> tags]

\* The struct types that implement io.ReaderFrom (through their pointer).
ReaderFromTypes == {"RecordSet"}

Implements(typ) == typ.kind = "struct" /\ typ.name \in ReaderFromTypes

(***************************************************************************)
(* Destination values.  An array is [len, elems]: len the length it was    *)
(* made with, elems the elements written so far, from the first; those     *)
(* beyond elems are still zero.  A struct is a function of its field       *)
(* names.                                                                  *)
(***************************************************************************)
array(n, elems) == [len |-> n, elems |-> elems]

makeArray(elemType, n) == array(n, <<>>)

RECURSIVE ZeroOf(_)
ZeroOf(typ) ==
    CASE Implements(typ) -> 0
      [] typ.kind = "bool" -> FALSE
      [] typ.kind \in {"int8", "int16", "int32"} -> 0
      [] typ.kind = "int64" -> Int64Zero
      [] typ.kind = "string" -> <<>>
      [] typ.kind = "slice" -> IF typ.elem.kind = "uint8" THEN <<>> ELSE array(0, <<>>)
      [] typ.kind = "struct" ->
            [n \in {typ.fields[i].name : i \in DOMAIN typ.fields} |->
                ZeroOf((CHOOSE f \in {typ.fields[i] : i \in DOMAIN typ.fields} : f.name = n).typ)]
      [] OTHER -> 0

(***************************************************************************)
(* The decode-plan compiler.  A decodeFunc is a record naming the routine  *)
(* and what its closure captured; [op |-> "panic"] is a compilation that   *)
(* panicked ("unsupported type").                                          *)
(***************************************************************************)
Panicked == [op |-> "panic"]

stringDecodeFuncOf(flexible, tag) ==
    IF flexible THEN [op |-> "decodeCompactString"] ELSE [op |-> "decodeString"]

bytesDecodeFuncOf(flexible, tag) ==
    IF flexible THEN [op |-> "decodeCompactBytes"] ELSE [op |-> "decodeBytes"]

readerDecodeFuncOf(typ) == [op |-> "readerFrom", typ |-> typ]

\* The test of the callback of structDecodeFuncOf: the tag's range holds version.
tagApplies_ignoresMax(tag, version) == tag.MinVersion <= version

tagApplies(tag, version) == tag.MinVersion <= version /\ version <= tag.MaxVersion

\* forEachStructTag with the callback of structDecodeFuncOf: the tags are tried
\* in order and the first whose range holds version stops the iteration.  The
\* index of that tag, 0 when there is none.
RECURSIVE firstTagInRange(_, _, _)
firstTagInRange(tags, version, i) ==
    IF i > Len(tags) THEN 0
    ELSE IF tagApplies(tags[i], version) THEN i
    ELSE firstTagInRange(tags, version, i + 1)

RECURSIVE decodeFuncOf(_, _, _, _)
RECURSIVE structFieldsOf(_, _, _, _, _)

\* The loop of structDecodeFuncOf over the struct's fields from the i-th on:
\* acc is [fields, taggedFields, panic] so far.
structFieldsOf(typ, version, flexible, i, acc) ==
    IF i > Len(typ.fields) \/ acc.panic THEN acc
    ELSE Only({
        IF t = 0 THEN structFieldsOf(typ, version, flexible, i + 1, acc)
        ELSE Only({
            structFieldsOf(typ, version, flexible, i + 1,
                IF f.decode = Panicked THEN [acc EXCEPT !.panic = TRUE]
                ELSE IF f.tagID < 0 - 1
                THEN [acc EXCEPT !.fields = Append(@, f)]
                ELSE [acc EXCEPT !.taggedFields =
                         [id \in DOMAIN @ \cup {f.tagID} |-> IF id = f.tagID THEN f ELSE @[id]]])
            : f \in {[decode |-> decodeFuncOf(typ.fields[i].typ, version, flexible,
                                              typ.fields[i].tags[t]),
                      index  |-> typ.fields[i].name,
                      tagID  |-> typ.fields[i].tags[t].TagID]} })
        : t \in {firstTagInRange(typ.fields[i].tags, version, 1)} })

structDecodeFuncOf(typ, version, flexible) ==
    Only({ IF acc.panic THEN Panicked
           ELSE [op |-> "struct", fields |-> acc.fields, taggedFields |-> acc.taggedFields,
                 flexible |-> flexible]
           : acc \in {structFieldsOf(typ, version, flexible, 1,
                         [fields |-> <<>>, taggedFields |-> <<>>, panic |-> FALSE])} })

arrayDecodeFuncOf(typ, version, flexible, tag) ==
    Only({ IF elemFunc = Panicked THEN Panicked
           ELSE [op |-> IF flexible THEN "decodeCompactArray" ELSE "decodeArray",
                 elemType |-> typ.elem, elemFunc |-> elemFunc]
           : elemFunc \in {decodeFuncOf(typ.elem, version, flexible, tag)} })

\* decodeFuncOf as it would be if the default case of its switch returned a
\* routine instead of panicking.
decodeFuncOf_noDefaultPanic(typ, version, flexible, tag) ==
    IF Implements(typ) THEN readerDecodeFuncOf(typ)
    ELSE CASE typ.kind = "int8" -> [op |-> "decodeInt8"]
           [] typ.kind = "int16" -> [op |-> "decodeInt16"]
           [] typ.kind = "int32" -> [op |-> "decodeInt32"]
           [] typ.kind = "int64" -> [op |-> "decodeInt64"]
           [] typ.kind = "string" -> stringDecodeFuncOf(flexible, tag)
           [] typ.kind = "struct" -> structDecodeFuncOf(typ, version, flexible)
           [] typ.kind = "slice" ->
                 IF typ.elem.kind = "uint8" THEN bytesDecodeFuncOf(flexible, tag)
                 ELSE arrayDecodeFuncOf(typ, version, flexible, tag)
           [] OTHER -> [op |-> "decodeBool"]

decodeFuncOf(typ, version, flexible, tag) ==
    IF Implements(typ) THEN readerDecodeFuncOf(typ)
    ELSE CASE typ.kind = "bool" -> [op |-> "decodeBool"]
           [] typ.kind = "int8" -> [op |-> "decodeInt8"]
           [] typ.kind = "int16" -> [op |-> "decodeInt16"]
           [] typ.kind = "int32" -> [op |-> "decodeInt32"]
           [] typ.kind = "int64" -> [op |-> "decodeInt64"]
           [] typ.kind = "string" -> stringDecodeFuncOf(flexible, tag)
           [] typ.kind = "struct" -> structDecodeFuncOf(typ, version, flexible)
           [] typ.kind = "slice" ->
                 IF typ.elem.kind = "uint8" THEN bytesDecodeFuncOf(flexible, tag)
                 ELSE arrayDecodeFuncOf(typ, version, flexible, tag)
           [] OTHER -> Panicked

(***************************************************************************)
(* Running a decodeFunc on a cursor and a destination.  The result is      *)
(* [d, v, log]: the cursor, the destination's value, and the log, to which *)
(* the struct and array routines append what they did (path is the place   *)
(* of the destination in the root value).                                  *)
(***************************************************************************)
Snapshot(dd) == [err |-> dd.err, remain |-> dd.remain, pos |-> dd.reader.pos]

Done(dd, v, log) == [d |-> dd, v |-> v, log |-> log]

\* The ReadFrom of a RecordSet: it switches the checksum on and reads through
\* the cursor; its error, if any, is the cursor's.
ReadFrom(dd) ==
    Only({ [d |-> r.d, v |-> r.v, err |-> r.d.err]
           : r \in {readByte(setCRC(dd, "Castagnoli"))} })

RECURSIVE decode(_, _, _, _, _)
RECURSIVE decodeFields(_, _, _, _, _, _)
RECURSIVE decodeTags(_, _, _, _, _, _, _)
RECURSIVE decodeElems(_, _, _, _, _, _, _)

\* for i := range fields { f.decode(d, v.fieldByIndex(f.index)) }
decodeFields(fields, i, dd, v, path, log) ==
    IF i > Len(fields) \/ dd.panic THEN Done(dd, v, log)
    ELSE Only({
        decodeFields(fields, i + 1, r.d, [v EXCEPT ![fields[i].index] = r.v], path,
            Append(r.log, [ev |-> "field", path |-> path, name |-> fields[i].index,
                           tagID |-> fields[i].tagID, before |-> Snapshot(dd),
                           after |-> Snapshot(r.d), val |-> r.v]))
        : r \in {decode(fields[i].decode, dd, v[fields[i].index],
                        Append(path, fields[i].index), log)} })

\* The else branch of the tag loop: d.read(size), the bytes thrown away.
skipTag_ignoresSize(dd, size) == read(dd, 0)

skipTag(dd, size) == read(dd, size)

\* for i := 0; i < n; i++ { tagID, size := ...; decode the field or read(size) }
\* An entry that changes neither the cursor nor the destination is followed
\* only by entries that do the same: the loop is cut there.
decodeTags(f, i, n, dd, v, path, log) ==
    IF i >= n \/ dd.panic THEN Done(dd, v, log)
    ELSE Only({ Only({
        IF size.d.panic THEN Done(size.d, v, log)
        ELSE IF IntOfU64(tagID.v) \in DOMAIN f.taggedFields
        THEN Only({ Only({
               IF r.d = dd /\ r.v = v[g.index] THEN Done(r.d, v, log)
               ELSE decodeTags(f, i + 1, n, r.d, [v EXCEPT ![g.index] = r.v], path,
                      Append(r.log, [ev |-> "tag", path |-> path, known |-> TRUE,
                                     i |-> i, n |-> n,
                                     tagID |-> IntOfU64(tagID.v), size |-> IntOfU64(size.v),
                                     name |-> g.index, entry |-> Snapshot(dd),
                                     before |-> Snapshot(size.d), after |-> Snapshot(r.d),
                                     val |-> r.v]))
               : r \in {decode(g.decode, size.d, v[g.index], Append(path, g.index), log)} })
               : g \in {f.taggedFields[IntOfU64(tagID.v)]} })
        ELSE Only({
               IF r.d = dd THEN Done(r.d, v, log)
               ELSE decodeTags(f, i + 1, n, r.d, v, path,
                      Append(log, [ev |-> "tag", path |-> path, known |-> FALSE,
                                   i |-> i, n |-> n,
                                   tagID |-> IntOfU64(tagID.v), size |-> IntOfU64(size.v),
                                   name |-> "", entry |-> Snapshot(dd),
                                   before |-> Snapshot(size.d), after |-> Snapshot(r.d)]))
               : r \in {skipTag(size.d, IntOfU64(size.v))} })
        : size \in {readUnsignedVarInt(tagID.d)} })
        : tagID \in {readUnsignedVarInt(dd)} })

\* The loop test of decodeArray and decodeCompactArray.
arrayLoopTest_countOnly(i, n, dd) == i < n

arrayLoopTest(i, n, dd) == i < n /\ dd.remain > 0

\* for i := 0; i < n && d.remain > 0; i++ { decodeElem(d, a.index(i)) }
\* An element that leaves the cursor as it was is followed only by elements
\* that do the same and stay zero: the loop is cut there, and runs to n.
\* The result is [d, elems, iters, log].
decodeElems(g, i, n, dd, elems, path, log) ==
    IF ~arrayLoopTest(i, n, dd) \/ dd.panic
    THEN [d |-> dd, elems |-> elems, iters |-> i, log |-> log]
    ELSE Only({
        IF r.d = dd THEN [d |-> dd, elems |-> elems, iters |-> n, log |-> log]
        ELSE decodeElems(g, i + 1, n, r.d, Append(elems, r.v), path, r.log)
        : r \in {decode(g.elemFunc, dd, ZeroOf(g.elemType), Append(path, i), log)} })

\* The body shared by decodeArray and decodeCompactArray once the count n is
\* read: n is int(count) for the classic form, int(count - 1) for the compact.
arrayBody(g, n, dd, path, log) ==
    IF dd.panic THEN Done(dd, array(0, <<>>), log)
    ELSE IF n < 0 THEN Done([dd EXCEPT !.panic = TRUE], array(0, <<>>), log)
    ELSE Only({ Done(r.d, array(n, r.elems),
                     Append(r.log, [ev |-> "array", path |-> path, count |-> n,
                                    elemType |-> g.elemType,
                                    iters |-> r.iters, before |-> Snapshot(dd),
                                    after |-> Snapshot(r.d)]))
                : r \in {decodeElems(g, 0, n, dd, <<>>, path, log)} })

decodeArray(g, dd, path, log) ==
    Only({ IF n.v < 0 THEN Done(n.d, array(0, <<>>), log)
           ELSE arrayBody(g, n.v, n.d, path, log)
           : n \in {dReadInt32(dd)} })

decodeCompactArray(g, dd, path, log) ==
    Only({ IF n.v = U64Zero THEN Done(n.d, array(0, <<>>), log)
           ELSE arrayBody(g, IntOfU64(U64Dec(n.v)), n.d, path, log)
           : n \in {readUnsignedVarInt(dd)} })

\* structDecode as it would be if it read the tag section in every mode.
structDecode_tagsAlways(f, dd, v, path, log) ==
    Only({
        IF r.d.panic THEN r
        ELSE Only({ decodeTags(f, 0, IntOfU64(n.v), n.d, r.v, path,
                               Append(r.log, [ev |-> "tags", path |-> path,
                                              n |-> IntOfU64(n.v)]))
                    : n \in {readUnsignedVarInt(r.d)} })
        : r \in {decodeFields(f.fields, 1, dd, v, path, log)} })

\* The routine structDecodeFuncOf returns.
structDecode(f, dd, v, path, log) ==
    Only({
        IF ~f.flexible \/ r.d.panic THEN r
        ELSE Only({ decodeTags(f, 0, IntOfU64(n.v), n.d, r.v, path,
                               Append(r.log, [ev |-> "tags", path |-> path,
                                              n |-> IntOfU64(n.v)]))
                    : n \in {readUnsignedVarInt(r.d)} })
        : r \in {decodeFields(f.fields, 1, dd, v, path, log)} })

\* The routine readerDecodeFuncOf returns.
readerDecode(f, dd, v, log) ==
    IF dd.err # NoErr THEN Done(dd, v, log)
    ELSE Only({ Done(IF r.err # NoErr THEN setError(r.d, r.err) ELSE r.d, r.v, log)
                : r \in {ReadFrom(dd)} })

Set(r, log) == Done(r.d, r.v, log)

decode(f, dd, v, path, log) ==
    IF dd.panic THEN Done(dd, v, log)
    ELSE CASE f.op = "decodeBool" -> Set(readBool(dd), log)
           [] f.op = "decodeInt8" -> Set(dReadInt8(dd), log)
           [] f.op = "decodeInt16" -> Set(dReadInt16(dd), log)
           [] f.op = "decodeInt32" -> Set(dReadInt32(dd), log)
           [] f.op = "decodeInt64" -> Set(dReadInt64(dd), log)
           [] f.op = "decodeString" -> Set(readString(dd), log)
           [] f.op = "decodeCompactString" -> Set(readCompactString(dd), log)
           [] f.op = "decodeBytes" -> Set(readBytes(dd), log)
           [] f.op = "decodeCompactBytes" -> Set(readCompactBytes(dd), log)
           [] f.op = "decodeArray" -> decodeArray(f, dd, path, log)
           [] f.op = "decodeCompactArray" -> decodeCompactArray(f, dd, path, log)
           [] f.op = "struct" -> structDecode(f, dd, v, path, log)
           [] f.op = "readerFrom" -> readerDecode(f, dd, v, log)

(***************************************************************************)
(* Spec: one cursor bound to a frame of a source, and any sequence of the  *)
(* cursor's methods applied to it.                                         *)
(***************************************************************************)
\* The other specifications' variables, which this one leaves alone.
Idle == <<>>
cacheVars == <<maps, unmarshalers, decoders, procs, hist>>
planVars == <<plan, out>>

\* Frame lengths tried on a source: short ones, and ones around its length
\* (a frame longer than the source is a stream cut short).
FrameSizes(data) ==
    ((0..(MaxLen + 1)) \cup {Len(data) - 1, Len(data), Len(data) + 1}) \ {0 - 1}

\* Lengths and counts a caller passes to Read, readFull, read, discard, writeTo.
Counts == 0..MaxLen

Init ==
    /\ \E data \in Sources, disc \in BOOLEAN :
         \E n \in FrameSizes(data) :
            /\ d = Reset(NewDecoder(NewReader(data, disc)), NewReader(data, disc), n)
            /\ frame = [n |-> n, start |-> 0]
    /\ op = [kind |-> "Reset", hadErr |-> FALSE]
    /\ maps = Idle /\ unmarshalers = Idle /\ decoders = Idle /\ procs = Idle /\ hist = Idle
    /\ plan = Idle /\ out = Idle

\* A method of the given kind turns the cursor into dd.
Apply(kind, dd) ==
    /\ ~d.panic
    /\ d' = dd
    /\ op' = [kind |-> kind, hadErr |-> d.err # NoErr]
    /\ UNCHANGED <<frame, cacheVars, planVars>>

\* Reset(r, n): the cursor is bound to the next frame of the same source,
\* which starts where the previous frame left the source.
Do_Reset ==
    \E n \in 0..1 :
        /\ done(d) \/ d.panic
        /\ d' = [Reset(d, d.reader, n) EXCEPT !.panic = FALSE]
        /\ frame' = [n |-> n, start |-> d.reader.pos]
        /\ op' = [kind |-> "Reset", hadErr |-> d.err # NoErr]
        /\ UNCHANGED <<cacheVars, planVars>>

Do_Read == \E n \in Counts : Apply("read", Read(d, n).d)

Do_ReadByte == Apply("read", ReadByte(d).d)

\* The checksum is switched on once in a frame.
Do_setCRC == d.table = NilTable /\ Apply("setCRC", setCRC(d, "IEEE"))

Do_discardAll == Apply("discard", discardAll(d))

Do_discard == \E n \in Counts \cup {0 - 1} : Apply("discard", discard(d, n))

Do_read == \E n \in Counts : Apply("read", read(d, n).d)

Do_writeTo == \E n \in Counts : Apply("read", writeTo(d, n).d)

Do_readFull == \E n \in Counts : Apply("read", readFull(d, n).d)

Do_readByte == Apply("read", readByte(d).d)

Do_readBool == Apply("read", readBool(d).d)

Do_readInt8 == Apply("read", dReadInt8(d).d)

Do_readInt16 == Apply("read", dReadInt16(d).d)

Do_readInt32 == Apply("read", dReadInt32(d).d)

Do_readInt64 == Apply("read", dReadInt64(d).d)

Do_readVarInt == Apply("read", readVarInt(d).d)

Do_readUnsignedVarInt == Apply("read", readUnsignedVarInt(d).d)

Do_readString == Apply("read", readString(d).d)

Do_readVarString == Apply("read", readVarString(d).d)

Do_readCompactString == Apply("read", readCompactString(d).d)

Do_readBytes == Apply("read", readBytes(d).d)

Do_readVarBytes == Apply("read", readVarBytes(d).d)

Do_readCompactBytes == Apply("read", readCompactBytes(d).d)

Do_readBytesTo == Apply("read", readBytesTo(d).d)

Do_readVarBytesTo == Apply("read", readVarBytesTo(d).d)

Do_readCompactBytesTo == Apply("read", readCompactBytesTo(d).d)

Next ==
    \/ Do_Reset
    \/ Do_Read
    \/ Do_ReadByte
    \/ Do_setCRC
    \/ Do_discardAll
    \/ Do_discard
    \/ Do_read
    \/ Do_writeTo
    \/ Do_readFull
    \/ Do_readByte
    \/ Do_readBool
    \/ Do_readInt8
    \/ Do_readInt16
    \/ Do_readInt32
    \/ Do_readInt64
    \/ Do_readVarInt
    \/ Do_readUnsignedVarInt
    \/ Do_readString
    \/ Do_readVarString
    \/ Do_readCompactString
    \/ Do_readBytes
    \/ Do_readVarBytes
    \/ Do_readCompactBytes
    \/ Do_readBytesTo
    \/ Do_readVarBytesTo
    \/ Do_readCompactBytesTo

Spec == Init /\ [][Next]_vars

(***************************************************************************)
(* SpecDecode: one plan compiled for a shape, a version and a mode, and    *)
(* run once on a cursor bound to a whole buffer, as Unmarshal binds it.    *)
(* The shapes are message structs of the kinds the package's callers       *)
(* declare: version ranges "0+", "1+" and "0-0", an extension field, array *)
(* fields, a field of an unsupported kind, a RecordSet.                    *)
(***************************************************************************)
MaxVersion == 1
MaxBuf == 6

Open == 2^15 - 1    \* the upper end of a range written "min+"

Ordinary == 0 - 2   \* the TagID of a field without an extension id

RecT ==
    StructOf("Rec", << Field("A", Prim("int8"), <<structTag(0, Open, Ordinary)>>),
                       Field("B", Prim("int16"), <<structTag(1, Open, Ordinary)>>),
                       Field("C", Prim("int8"), <<structTag(0, 0, Ordinary)>>),
                       Field("X", Prim("int8"), <<structTag(1, Open, 1)>>) >>)

TaggedT ==
    StructOf("Tagged", << Field("X", Prim("int8"), <<structTag(0, Open, 1)>>),
                          Field("Y", Prim("string"), <<structTag(1, Open, 0)>>) >>)

ItemT == StructOf("Item", << Field("K", Prim("int8"), <<structTag(0, Open, Ordinary)>>) >>)

ArrT ==
    StructOf("Arr", << Field("N", SliceOf(Prim("int16")), <<structTag(0, Open, Ordinary)>>),
                       Field("M", SliceOf(Prim("int8")), <<structTag(1, Open, Ordinary)>>),
                       Field("S", SliceOf(ItemT), <<structTag(0, 0, Ordinary)>>) >>)

BadT ==
    StructOf("Bad", << Field("A", Prim("int8"), <<structTag(0, Open, Ordinary)>>),
                       Field("F", Prim("float64"), <<structTag(1, Open, Ordinary)>>) >>)

SetT ==
    StructOf("Set", << Field("R", StructOf("RecordSet", <<>>), <<structTag(0, Open, Ordinary)>>),
                       Field("P", SliceOf(Prim("uint8")), <<structTag(1, Open, Ordinary)>>) >>)

StrT ==
    StructOf("Str", << Field("S", Prim("string"), <<structTag(0, Open, Ordinary)>>),
                       Field("I", ItemT, <<structTag(1, Open, Ordinary)>>) >>)

ListT ==
    StructOf("List", << Field("L", SliceOf(Prim("int8")), <<structTag(0, Open, Ordinary)>>) >>)

ExtT ==
    StructOf("Ext", << Field("A", Prim("int8"), <<structTag(0, Open, Ordinary)>>),
                       Field("X", Prim("int8"), <<structTag(0, Open, 1)>>) >>)

Shapes == {RecT, TaggedT, ArrT, BadT, SetT, StrT, ListT, ExtT}

\* Buffers: every sequence of small bytes up to MaxBuf, and the shorter ones
\* that also hold 0xFF (a negative count, a varint continuation).
WireBytes == {0, 1, 2}
Buffers == SeqsUpTo(WireBytes, MaxBuf) \cup SeqsUpTo(WireBytes \cup {255}, MaxBuf - 2)

\* The tag Unmarshal compiles the root value with.
rootTag ==
    [MinVersion |-> 0 - 1, MaxVersion |-> 0 - 1, TagID |-> 0 - 2,
     Compact |-> TRUE, Nullable |-> TRUE]

NoPlan == [op |-> "none"]

InitDecode ==
    /\ \E typ \in Shapes, version \in 0..MaxVersion, flexible \in BOOLEAN,
          data \in Buffers, disc \in BOOLEAN :
            /\ d = Reset(NewDecoder(NewReader(data, disc)), NewReader(data, disc), Len(data))
            /\ frame = [n |-> Len(data), start |-> 0]
            /\ plan = [typ |-> typ, version |-> version, flexible |-> flexible, fn |-> NoPlan]
            /\ out = [v |-> ZeroOf(typ), log |-> <<>>]
    /\ op = [kind |-> "Bind", hadErr |-> FALSE]
    /\ maps = Idle /\ unmarshalers = Idle /\ decoders = Idle /\ procs = Idle /\ hist = Idle

\* decodeFuncOf(typ, version, flexible, tag) for the root value.
Compile ==
    /\ op.kind = "Bind"
    /\ plan' = [plan EXCEPT !.fn = decodeFuncOf(plan.typ, plan.version, plan.flexible, rootTag)]
    /\ op' = [kind |-> "Compile", hadErr |-> FALSE]
    /\ UNCHANGED <<d, frame, out, cacheVars>>

\* decode(d, valueOf(value)) with the compiled plan; a plan whose compilation
\* panicked is never run.
Decode ==
    /\ op.kind = "Compile"
    /\ plan.fn # Panicked
    /\ \E r \in {decode(plan.fn, d, out.v, <<>>, <<>>)} :
          /\ d' = r.d
          /\ out' = [v |-> r.v, log |-> r.log]
    /\ op' = [kind |-> "Decode", hadErr |-> FALSE]
    /\ UNCHANGED <<frame, plan, cacheVars>>

NextDecode == Compile \/ Decode

SpecDecode == InitDecode /\ [][NextDecode]_vars

(***************************************************************************)
(* SpecUnmarshal: goroutines calling Unmarshal concurrently.  maps is the  *)
(* heap of map objects, unmarshalers the object the atomic.Value holds (0: *)
(* nothing stored yet), decoders the cursors in the sync.Pool, procs each  *)
(* goroutine's position in Unmarshal and its locals.  hist is a record of  *)
(* what happened: the maps published, in order; for each map object the    *)
(* key it was made for and the map its maker had loaded; whether a key was *)
(* missed after a map holding it was published; whether a cursor that held *)
(* an error and a checksum was put back.  A local is cleared once Unmarshal *)
(* no longer reads it.                                                     *)
(***************************************************************************)
NumProcs == 2
MaxCalls == 2
MaxData == 1

Procs == 1..NumProcs
UShapes == {SetT, BadT}
UBuffers == SeqsUpTo({1}, MaxData)

versionedType(typ, version) == [typ |-> typ, version |-> version]

NoKey == versionedType(Prim("none"), 0)
NoCursor == NewDecoder(NewReader(<<>>, FALSE))

\* A goroutine outside Unmarshal.
IdleProc(calls) ==
    [pc |-> "idle", key |-> NoKey, data |-> <<>>, cache |-> 0, decode |-> NoPlan,
     newCache |-> 0, todo |-> {}, d |-> NoCursor, calls |-> calls]

\* cache[key] of a map object, or of the nil map (id 0): NoPlan is the nil func.
MapOf(ms, id) == IF id = 0 THEN <<>> ELSE ms[id]
Lookup(m, key) == IF key \in DOMAIN m THEN m[key] ELSE NoPlan
Insert(m, key, fn) == [k \in DOMAIN m \cup {key} |-> IF k = key THEN fn ELSE m[k]]

\* make(map[versionedType]decodeFunc, len(cache)+1): a new map object.
\* The result is the heap and the object's id.
makeMap_inPlace(ms, cache) ==
    IF cache = 0 THEN [maps |-> Append(ms, <<>>), id |-> Len(ms) + 1]
    ELSE [maps |-> ms, id |-> cache]

makeMap(ms, cache) == [maps |-> Append(ms, <<>>), id |-> Len(ms) + 1]

InitUnmarshal ==
    /\ maps = <<>>
    /\ unmarshalers = 0
    /\ decoders = <<>>
    /\ procs = [p \in Procs |-> IdleProc(0)]
    /\ hist = [published |-> <<>>, built |-> <<>>, remiss |-> FALSE, dirtyPut |-> FALSE]
    /\ d = Idle /\ op = Idle /\ frame = Idle /\ plan = Idle /\ out = Idle

Published == {hist.published[i] : i \in DOMAIN hist.published}

\* Unmarshal(data, version, value) up to decode := cache[key].
U_Load(p) ==
    /\ procs[p].pc = "idle"
    /\ procs[p].calls < MaxCalls
    /\ \E typ \in UShapes, version \in 0..MaxVersion, data \in UBuffers :
          LET key == versionedType(typ, version)
              fn  == Lookup(MapOf(maps, unmarshalers), key)
          IN  /\ procs' = [procs EXCEPT ![p] =
                    [@ EXCEPT !.pc = IF fn = NoPlan THEN "compile" ELSE "get",
                              !.key = key, !.data = data,
                              !.cache = IF fn = NoPlan THEN unmarshalers ELSE 0,
                              !.decode = fn]]
              /\ hist' = [hist EXCEPT !.remiss =
                    @ \/ (fn = NoPlan /\ \E id \in Published : key \in DOMAIN maps[id])]
    /\ UNCHANGED <<maps, unmarshalers, decoders, d, op, frame, plan, out>>

\* decode = decodeFuncOf(...); newCache := make(...); newCache[key] = decode.
\* A panic of the compiler ends the call.
U_Compile(p) ==
    /\ procs[p].pc = "compile"
    /\ \E fn \in {decodeFuncOf(procs[p].key.typ, procs[p].key.version, FALSE, rootTag)} :
          IF fn = Panicked
          THEN /\ procs' = [procs EXCEPT ![p] = IdleProc(@.calls + 1)]
               /\ UNCHANGED <<maps, hist>>
          ELSE \E m \in {makeMap(maps, procs[p].cache)} :
               /\ maps' = [m.maps EXCEPT ![m.id] = Insert(@, procs[p].key, fn)]
               /\ procs' = [procs EXCEPT ![p] =
                     [@ EXCEPT !.pc = "copy", !.decode = fn, !.newCache = m.id,
                               !.todo = DOMAIN MapOf(maps, procs[p].cache)]]
               /\ hist' = [hist EXCEPT !.built =
                     [id \in DOMAIN m.maps |->
                        IF id = m.id THEN [key |-> procs[p].key, base |-> procs[p].cache]
                        ELSE @[id]]]
    /\ UNCHANGED <<unmarshalers, decoders, d, op, frame, plan, out>>

\* One iteration of for typ, fun := range cache { newCache[typ] = fun }.
U_Copy(p) ==
    /\ procs[p].pc = "copy"
    /\ \E k \in procs[p].todo :
          /\ maps' = [maps EXCEPT ![procs[p].newCache] =
                         Insert(@, k, maps[procs[p].cache][k])]
          /\ procs' = [procs EXCEPT ![p] = [@ EXCEPT !.todo = @ \ {k}]]
    /\ UNCHANGED <<unmarshalers, decoders, hist, d, op, frame, plan, out>>

\* unmarshalers.Store(newCache), once the range is over.
U_Store(p) ==
    /\ procs[p].pc = "copy"
    /\ procs[p].todo = {}
    /\ unmarshalers' = procs[p].newCache
    /\ hist' = [hist EXCEPT !.published = Append(@, procs[p].newCache)]
    /\ procs' = [procs EXCEPT ![p] = [@ EXCEPT !.pc = "get", !.cache = 0, !.newCache = 0]]
    /\ UNCHANGED <<maps, decoders, d, op, frame, plan, out>>

\* d := decoders.Get(), a new cursor when the pool gives none (it may at any
\* time); d.remain = len(data); r.Reset(data).
\* return dontExpectEOF(d.err): an io.EOF the cursor holds was met while the
\* plan still expected bytes, and is returned as io.ErrUnexpectedEOF.
dontExpectEOF(err) == IF err = EOF THEN ErrUnexpectedEOF ELSE err

Bind(c, data) == [c EXCEPT !.remain = Len(data), !.reader = NewReader(data, FALSE)]

U_Get(p) ==
    /\ procs[p].pc = "get"
    /\ \/ \E i \in DOMAIN decoders :
             /\ procs' = [procs EXCEPT ![p] =
                   [@ EXCEPT !.pc = "decode", !.data = <<>>,
                             !.d = Bind(decoders[i], procs[p].data)]]
             /\ decoders' = SubSeq(decoders, 1, i - 1) \o SubSeq(decoders, i + 1, Len(decoders))
       \/ /\ procs' = [procs EXCEPT ![p] =
                [@ EXCEPT !.pc = "decode", !.data = <<>>,
                          !.d = Bind(NoCursor, procs[p].data)]]
          /\ UNCHANGED decoders
    /\ UNCHANGED <<maps, unmarshalers, hist, d, op, frame, plan, out>>

\* decode(d, valueOf(value)).
U_Decode(p) ==
    /\ procs[p].pc = "decode"
    /\ \E r \in {decode(procs[p].decode, procs[p].d, ZeroOf(procs[p].key.typ), <<>>, <<>>)} :
          procs' = [procs EXCEPT ![p] =
              [@ EXCEPT !.pc = "put", !.key = NoKey, !.decode = NoPlan, !.d = r.d]]
    /\ UNCHANGED <<maps, unmarshalers, decoders, hist, d, op, frame, plan, out>>

\* The deferred function: r.Reset(nil); d.Reset(r, 0); decoders.Put(d).  It
\* runs when decode returned and when it panicked.
U_Put(p) ==
    /\ procs[p].pc = "put"
    /\ decoders' = Append(decoders,
          [Reset(procs[p].d, NewReader(<<>>, FALSE), 0) EXCEPT !.panic = FALSE])
    /\ hist' = [hist EXCEPT !.dirtyPut =
          @ \/ (procs[p].d.err # NoErr /\ procs[p].d.table # NilTable)]
    /\ procs' = [procs EXCEPT ![p] = IdleProc(@.calls + 1)]
    /\ UNCHANGED <<maps, unmarshalers, d, op, frame, plan, out>>

NextUnmarshal ==
    \E p \in Procs :
        \/ U_Load(p)
        \/ U_Compile(p)
        \/ U_Copy(p)
        \/ U_Store(p)
        \/ U_Get(p)
        \/ U_Decode(p)
        \/ U_Put(p)

SpecUnmarshal == InitUnmarshal /\ [][NextUnmarshal]_vars

(***************************************************************************)
(* Claims about the cursor, checked under Spec.                            *)
(***************************************************************************)
\* The source holds every byte of the current frame.
FrameInSource == Len(d.reader.data) >= frame.start + frame.n

FrameEnd == frame.start + frame.n

\* C1: for a cursor bound to a frame of N bytes, after any sequence of the
\* cursor's methods the remaining budget is between 0 and N and no more than
\* N bytes have been taken from the source.
C1_BudgetWithinFrame ==
    /\ 0 <= d.remain
    /\ d.remain <= frame.n
    /\ d.reader.pos - frame.start <= frame.n

\* C2: once the sticky error is set, every step but Reset leaves it as it is.
C2_StickyErrorKept ==
    [][(d.err # NoErr /\ op'.kind # "Reset") => d'.err = d.err]_vars

\* A method ran on a cursor whose error was already set, with budget left and
\* source bytes left for it to fail on again.
C2_Witness ==
    /\ op.hadErr /\ op.kind \in {"read", "discard"}
    /\ d.err # NoErr /\ d.remain > 0 /\ d.reader.pos < Len(d.reader.data)

\* What a read returns, and leaves of the cursor, when it does nothing.
NoOp(r, zero) == r.d = d /\ r.v = zero

\* C3: when the sticky error is set, every read operation returns the zero or
\* empty value and leaves the cursor (its budget, and its source with the
\* position in it) as it was.
C3_ReadsAreNoOps ==
    (d.err # NoErr /\ ~d.panic) =>
        /\ \A n \in Counts :
             /\ Read(d, n) = [d |-> d, n |-> 0, err |-> d.err, b |-> <<>>]
             /\ readFull(d, n) = [d |-> d, ok |-> (n = 0), b |-> <<>>]
             /\ NoOp(writeTo(d, n), <<>>)
        /\ ReadByte(d) = [d |-> d, v |-> 0, err |-> d.err]
        /\ NoOp(readByte(d), 0)
        /\ NoOp(readBool(d), FALSE)
        /\ NoOp(dReadInt8(d), 0)
        /\ NoOp(dReadInt16(d), 0)
        /\ NoOp(dReadInt32(d), 0)
        /\ NoOp(dReadInt64(d), Int64Zero)
        /\ NoOp(readVarInt(d), I64Zero)
        /\ NoOp(readUnsignedVarInt(d), U64Zero)
        /\ NoOp(readString(d), <<>>)
        /\ NoOp(readVarString(d), <<>>)
        /\ NoOp(readCompactString(d), <<>>)
        /\ NoOp(readBytes(d), <<>>)
        /\ NoOp(readVarBytes(d), <<>>)
        /\ NoOp(readCompactBytes(d), <<>>)
        /\ readBytesTo(d).d = d /\ readBytesTo(d).w = <<>>
        /\ readVarBytesTo(d).d = d /\ readVarBytesTo(d).w = <<>>
        /\ readCompactBytesTo(d).d = d /\ readCompactBytesTo(d).w = <<>>

\* A read ran with the error already set while the frame had budget left and
\* the source had bytes left: a read that asked the source would have got some.
C3_Witness ==
    /\ op.hadErr /\ op.kind = "read"
    /\ d.err # NoErr /\ d.remain > 0 /\ d.reader.pos < Len(d.reader.data)

\* C4: whenever a failed read sets the sticky error, the rest of the frame is
\* discarded: the budget is 0 and the source stands at the end of the frame
\* (stated for a source that holds the whole frame, with or without Discard).
C4_FrameDiscardedOnError ==
    (op.kind = "read" /\ ~op.hadErr /\ d.err # NoErr /\ ~d.panic /\ FrameInSource)
        => (d.remain = 0 /\ d.reader.pos = FrameEnd)


(***************************************************************************)
(* Claims about compiled plans, checked under SpecDecode.                  *)
(***************************************************************************)
Decoded == op.kind = "Decode"

\* The events of the root struct that write its field name: the positional
\* decode of the field, and the tag entries that address it.
Writers(name) ==
    {i \in DOMAIN out.log :
        /\ out.log[i].ev = "field" \/ (out.log[i].ev = "tag" /\ out.log[i].known)
        /\ Len(out.log[i].path) = 0
        /\ out.log[i].name = name}

Last(S) == CHOOSE i \in S : \A j \in S : j <= i

\* Every field of the root struct holds what the last event that wrote it
\* stored, and its zero value when no event wrote it.
OnlyWritersWrite ==
    \A k \in DOMAIN plan.typ.fields :
        LET f == plan.typ.fields[k] IN
        out.v[f.name] = IF Writers(f.name) = {} THEN ZeroOf(f.typ)
                        ELSE out.log[Last(Writers(f.name))].val

UnknownTag(e) ==
    /\ e.ev = "tag" /\ ~e.known
    /\ e.before.err = NoErr
    /\ 0 <= e.size /\ e.size <= e.before.remain

\* C8: in a flexible struct decode, a tag entry whose id is not a registered
\* extension field, and whose declared payload is within the budget, consumes
\* exactly the declared payload length, sets no error and writes no field of
\* the destination (every field holds what its own last decode stored, or
\* zero); when the section declares a further entry, that entry is processed
\* next, from where the skipped payload ended.
C8_UnknownTagSkipped ==
    (Decoded /\ ~d.panic) =>
        /\ OnlyWritersWrite
        /\ \A i \in DOMAIN out.log :
              LET e == out.log[i] IN
              UnknownTag(e) =>
                /\ e.after.pos = e.before.pos + e.size
                /\ e.after.remain = e.before.remain - e.size
                /\ e.after.err = NoErr
                /\ e.i + 1 < e.n =>
                      \E j \in DOMAIN out.log :
                          /\ j > i
                          /\ out.log[j].ev = "tag"
                          /\ out.log[j].path = e.path
                          /\ out.log[j].i = e.i + 1
                          /\ out.log[j].entry = e.after

\* An unknown tag with a payload of at least one byte was skipped after an
\* ordinary field was decoded to a non-zero value, and the decode ended
\* without an error.
C8_Witness ==
    /\ Decoded /\ ~d.panic /\ d.err = NoErr
    /\ plan.typ.name = "Rec" /\ out.v["A"] # 0
    /\ \E i \in DOMAIN out.log : UnknownTag(out.log[i]) /\ out.log[i].size >= 1


\* The version ranges of field f hold the plan's version; TagOf is the first
\* tag that does.
InRange(f) ==
    \E t \in DOMAIN f.tags :
        f.tags[t].MinVersion <= plan.version /\ plan.version <= f.tags[t].MaxVersion

TagOf(f) ==
    f.tags[CHOOSE t \in DOMAIN f.tags :
              /\ f.tags[t].MinVersion <= plan.version /\ plan.version <= f.tags[t].MaxVersion
              /\ \A u \in 1..(t - 1) :
                    ~(f.tags[u].MinVersion <= plan.version /\ plan.version <= f.tags[u].MaxVersion)]

Compiled == op.kind \in {"Compile", "Decode"} /\ plan.fn # Panicked

PlanNames == {plan.fn.fields[i].index : i \in DOMAIN plan.fn.fields}
TaggedNames == {plan.fn.taggedFields[t].index : t \in DOMAIN plan.fn.taggedFields}

\* The positional decodes of the root struct's fields, in the order they ran.
RootFields == SelectSeq(out.log, LAMBDA e : e.ev = "field" /\ Len(e.path) = 0)

\* The root struct's positional decodes are the plan's ordinary fields, one
\* each, and each starts where the one before ended, the first at the start of
\* the buffer: no byte is consumed for anything else in between.
PositionalChain ==
    /\ Len(RootFields) = Len(plan.fn.fields)
    /\ \A i \in DOMAIN RootFields :
          /\ RootFields[i].name = plan.fn.fields[i].index
          /\ RootFields[i].before =
                IF i = 1 THEN [err |-> NoErr, remain |-> frame.n, pos |-> 0]
                ELSE RootFields[i - 1].after

\* A field none of whose ranges holds the version: it is in no part of the
\* plan, no decode names it, and it is left at its zero value.
OutOfRangeAbsent(f) ==
    /\ f.name \notin PlanNames \cup TaggedNames
    /\ Decoded => (Writers(f.name) = {} /\ out.v[f.name] = ZeroOf(f.typ))

\* C9 as stated: out-of-range fields are absent and untouched, and every field
\* whose range holds the version is decoded.
C9_EveryInRangeFieldDecoded ==
    (Compiled /\ ~d.panic) =>
        \A k \in DOMAIN plan.typ.fields :
            LET f == plan.typ.fields[k] IN
            IF InRange(f) THEN Decoded => Writers(f.name) # {}
            ELSE OutOfRangeAbsent(f)

\* C9, amended: for a struct plan compiled at version V, a field none of
\* whose ranges contains V is absent from the plan, consumes no byte and is
\* left at its zero value; every ordinary field whose range contains V is
\* in the plan's positional sequence and is decoded, exactly once, by every
\* decode that returns; an extension field whose range contains V is
\* registered under its tag id and is decoded only by a tag entry with that
\* id of a flexible decode.
C9_OutOfRangeFieldAbsent ==
    (Compiled /\ ~d.panic) =>
        /\ Decoded => PositionalChain
        /\ \A k \in DOMAIN plan.typ.fields :
              LET f == plan.typ.fields[k] IN
              IF ~InRange(f) THEN OutOfRangeAbsent(f)
              ELSE IF TagOf(f).TagID < 0 - 1
              THEN /\ Cardinality({i \in DOMAIN plan.fn.fields :
                                     plan.fn.fields[i].index = f.name}) = 1
                   /\ f.name \notin TaggedNames
                   /\ Decoded =>
                        Cardinality({i \in Writers(f.name) : out.log[i].ev = "field"}) = 1
              ELSE /\ f.name \notin PlanNames
                   /\ TagOf(f).TagID \in DOMAIN plan.fn.taggedFields
                   /\ plan.fn.taggedFields[TagOf(f).TagID].index = f.name
                   /\ Decoded =>
                        \A i \in Writers(f.name) :
                            /\ plan.flexible
                            /\ out.log[i].ev = "tag"
                            /\ out.log[i].tagID = TagOf(f).TagID

\* Rec decoded at version 0 from two bytes: A and C are decoded, B ("1+") is
\* not, and nothing is left over.
C9_Witness ==
    /\ Decoded /\ ~d.panic /\ d.err = NoErr
    /\ plan.typ.name = "Rec" /\ plan.version = 0 /\ ~plan.flexible
    /\ frame.n = 2 /\ d.remain = 0
    /\ out.v["A"] # 0 /\ out.v["C"] # 0 /\ out.v["B"] = 0

\* The byte width of a fixed-width element, 0 for the others.
WidthOf(typ) ==
    CASE typ.kind \in {"bool", "int8"} -> 1
      [] typ.kind = "int16" -> 2
      [] typ.kind = "int32" -> 4
      [] typ.kind = "int64" -> 8
      [] OTHER -> 0

\* An array of fixed-width elements, entered without an error, whose declared
\* count exceeds the elements the remaining budget can supply.
Oversized(e) ==
    /\ e.ev = "array"
    /\ e.before.err = NoErr
    /\ WidthOf(e.elemType) > 0
    /\ e.count > e.before.remain \div WidthOf(e.elemType)

PlanFor(key) == decodeFuncOf(key.typ, key.version, FALSE, rootTag)

\* A map object holds the key it was made for and every entry of the map its
\* maker had loaded, nothing else, each key with the plan compiled for it.
CompleteMap(id) ==
    /\ DOMAIN maps[id] = DOMAIN MapOf(maps, hist.built[id].base) \cup {hist.built[id].key}
    /\ \A k \in DOMAIN maps[id] : maps[id][k] = PlanFor(k)

\* C5: under any interleaving of concurrent Unmarshal calls, every mapping
\* that was stored in the plan cache is complete (the entries of the mapping
\* it was built from plus the new key), no step modifies a stored mapping,
\* and a plan a call took from the cache or compiled is the plan for
\* exactly the call's shape and version.
C5_PublishedMapsCompleteAndFrozen ==
    /\ [](\A id \in Published : CompleteMap(id))
    /\ [](\A p \in Procs :
             procs[p].pc \in {"get", "decode"} => procs[p].decode = PlanFor(procs[p].key))
    /\ [][\A id \in Published : maps'[id] = maps[id]]_vars

\* Two goroutines missed on the same cold key and both stored a mapping; a
\* third mapping was built by copying a stored one, and a call was served from
\* the cache.
C5_Witness ==
    /\ \E i, j \in DOMAIN hist.published :
          /\ i # j
          /\ hist.built[hist.published[i]].key = hist.built[hist.published[j]].key
          /\ hist.built[hist.published[i]].base = 0
          /\ hist.built[hist.published[j]].base = 0
    /\ \E id \in Published : hist.built[id].base # 0 /\ Cardinality(DOMAIN maps[id]) = 2
    /\ \E p \in Procs : procs[p].pc = "get" /\ procs[p].cache = 0 /\ procs[p].newCache = 0
                        /\ procs[p].todo = {} /\ unmarshalers # 0
                        /\ procs[p].key \in DOMAIN maps[unmarshalers]

\* C6: once a key was published, every mapping published afterwards contains
\* it, and no call misses on it (and compiles it) again.
C6_PublishedKeyKept ==
    /\ \A i, j \in DOMAIN hist.published :
          i < j => DOMAIN maps[hist.published[i]] \subseteq DOMAIN maps[hist.published[j]]
    /\ ~hist.remiss

FullyReset(c) ==
    /\ c.reader.data = <<>> /\ c.reader.pos = 0
    /\ c.remain = 0
    /\ c.err = NoErr
    /\ c.table = NilTable
    /\ c.crc32 = CrcZero

\* C7: every cursor in the pool is fully reset (source bound to no data,
\* budget 0, no sticky error, no checksum table, checksum 0), and a cursor a
\* call has checked out and bound starts with no error and no checksum state.
C7_PooledCursorsReset ==
    /\ \A i \in DOMAIN decoders : FullyReset(decoders[i])
    /\ \A p \in Procs :
          procs[p].pc = "decode" =>
              /\ procs[p].d.err = NoErr
              /\ procs[p].d.table = NilTable
              /\ procs[p].d.crc32 = CrcZero

\* A cursor whose decode failed with the checksum switched on was put back,
\* and a later call has taken a cursor out of the pool.
C7_Witness ==
    /\ hist.dirtyPut
    /\ \E p \in Procs : procs[p].pc = "decode" /\ procs[p].calls = 1
    /\ Len(decoders) = 0


(***************************************************************************)
(* Claims about truncated input, checked under SpecDecode on the states    *)
(* Unmarshal produces: a non-flexible plan on a bytes.Reader bound to the  *)
(* whole buffer.                                                           *)
(***************************************************************************)
AsUnmarshal == Decoded /\ ~plan.flexible /\ ~d.reader.disc

\* The plan run by Unmarshal on another buffer.
RunOn(data) == decode(plan.fn, Bind(NoCursor, data), ZeroOf(plan.typ), <<>>, <<>>)

\* The bytes a truncated buffer may lack.
Tails == SeqsUpTo(WireBytes, 2) \ {<<>>}

\* The buffer is a proper prefix of one the plan decodes without an error and
\* to its last byte: it is shorter than the plan and the declared lengths and
\* counts require.
Truncated ==
    \E t \in Tails :
        \E r \in {RunOn(d.reader.data \o t)} :
            r.d.err = NoErr /\ ~r.d.panic /\ r.d.remain = 0

\* An array loop that the budget ended between two elements.
CutAtElementBoundary ==
    \E i \in DOMAIN out.log :
        /\ out.log[i].ev = "array"
        /\ out.log[i].iters < out.log[i].count
        /\ out.log[i].after.remain = 0
        /\ out.log[i].after.err = NoErr

SupportedKinds == {"bool", "int8", "int16", "int32", "int64", "string", "struct", "slice"}

\* The key's struct has, at the key's version, a field of a kind the compiler
\* has no case for.
Unsupported(key) ==
    /\ key.typ.kind = "struct"
    /\ \E k \in DOMAIN key.typ.fields :
          /\ \E t \in DOMAIN key.typ.fields[k].tags :
                /\ key.typ.fields[k].tags[t].MinVersion <= key.version
                /\ key.version <= key.typ.fields[k].tags[t].MaxVersion
          /\ key.typ.fields[k].typ.kind \notin SupportedKinds

\* C12: an Unmarshal of a shape the compiler has no rule for ends while the
\* plan is built: the call never gets past compilation and never holds a
\* cursor, its only step leaves the call without touching the pool, the
\* published map, any map object or the input, and no map object ever holds
\* the key.
C12_UnsupportedFailsFast ==
    /\ [](\A p \in Procs :
             Unsupported(procs[p].key) =>
                 procs[p].pc = "compile" /\ procs[p].d = NoCursor)
    /\ [](\A id \in DOMAIN maps : \A k \in DOMAIN maps[id] : ~Unsupported(k))
    /\ [][\A p \in Procs :
             (Unsupported(procs[p].key) /\ procs'[p] # procs[p]) =>
                 /\ procs'[p] = IdleProc(procs[p].calls + 1)
                 /\ UNCHANGED <<maps, unmarshalers, decoders, hist>>]_vars

\* A call of an unsupported shape is about to fail while a map is published
\* and a cursor sits in the pool; the other goroutine has had a call fail the
\* same way or succeed.
C12_Witness ==
    /\ \E p \in Procs : procs[p].pc = "compile" /\ Unsupported(procs[p].key)
                        /\ procs[p].calls = 1
    /\ unmarshalers # 0
    /\ Len(decoders) > 0


(***************************************************************************)
(* Claims about the readers, checked by applying the reader to every       *)
(* cursor the specification reaches.                                       *)
(***************************************************************************)
\* The cursor can read k more bytes: no error, budget and source hold them.
Avail(k) ==
    /\ d.err = NoErr /\ ~d.panic
    /\ d.remain >= k
    /\ Len(d.reader.data) >= d.reader.pos + k

\* The k-th byte ahead of the cursor.
Ahead(k) == d.reader.data[d.reader.pos + k]

\* The read r consumed exactly k bytes and set no error.
Took(r, k) ==
    /\ r.d.reader.pos = d.reader.pos + k
    /\ r.d.remain = d.remain - k
    /\ r.d.err = NoErr
    /\ ~r.d.panic

\* An array plan of int8 elements.
Int8Array == [elemType |-> Prim("int8"), elemFunc |-> [op |-> "decodeInt8"]]

\* C13: a sentinel length decodes to the empty value, consumes the length
\* prefix only and sets no error: a negative int16 for a classic string, a
\* negative int32 for classic bytes and a classic array, the unsigned varint 0
\* for a compact string, compact bytes and a compact array.
C13_SentinelLengths ==
    /\ (Avail(2) /\ Ahead(1) >= 128) =>
          (Took(readString(d), 2) /\ readString(d).v = <<>>)
    /\ (Avail(4) /\ Ahead(1) >= 128) =>
          /\ Took(readBytes(d), 4) /\ readBytes(d).v = <<>>
          /\ Took(decodeArray(Int8Array, d, <<>>, <<>>), 4)
          /\ decodeArray(Int8Array, d, <<>>, <<>>).v = array(0, <<>>)
    /\ (Avail(1) /\ Ahead(1) = 0) =>
          /\ Took(readCompactString(d), 1) /\ readCompactString(d).v = <<>>
          /\ Took(readCompactBytes(d), 1) /\ readCompactBytes(d).v = <<>>
          /\ Took(decodeCompactArray(Int8Array, d, <<>>, <<>>), 1)
          /\ decodeCompactArray(Int8Array, d, <<>>, <<>>).v = array(0, <<>>)

\* Str decoded at version 1 from a negative string length and one more byte:
\* the string is empty and the byte after the length is the next field's.
C13_Witness ==
    /\ Decoded /\ ~plan.flexible
    /\ plan.typ.name = "Str" /\ plan.version = 1
    /\ frame.n = 3 /\ d.reader.data[1] = 255
    /\ d.err = NoErr /\ d.remain = 0
    /\ out.v["S"] = <<>> /\ out.v["I"]["K"] # 0

(***************************************************************************)
(* SpecRoundTrip: a message value written by the symmetric encoder at a    *)
(* version and in a mode, and the bytes decoded back by the plan compiled  *)
(* for the same shape, version and mode, as prototest.TestRequest does     *)
(* with WriteRequest and ReadRequest.  The encoder writes the wire format  *)
(* the decoder reads: big-endian fixed-width integers, a length or count   *)
(* prefix (int16, int32, or the unsigned varint of the length plus one in  *)
(* flexible mode), the ordinary fields in declaration order and, in        *)
(* flexible mode, the tag section.  hist holds the value that was written. *)
(***************************************************************************)
MaxElems == 2

PrimT ==
    StructOf("Prims", << Field("B", Prim("bool"), <<structTag(0, Open, Ordinary)>>),
                         Field("W", Prim("int32"), <<structTag(0, Open, Ordinary)>>),
                         Field("Q", Prim("int64"), <<structTag(1, Open, Ordinary)>>),
                         Field("P", SliceOf(Prim("uint8")), <<structTag(0, Open, Ordinary)>>) >>)

RTShapes == {RecT, TaggedT, ArrT, StrT, PrimT}

\* The n big-endian bytes of the two's complement of v.
writeInt(v, n) == [i \in 1..n |-> (v \div 256^(n - i)) % 256]

writeInt64(v) == writeInt(v.hi, 4) \o writeInt(v.lo1, 2) \o writeInt(v.lo0, 2)

RECURSIVE writeUnsignedVarInt(_)
writeUnsignedVarInt(n) ==
    IF n < 128 THEN <<n>> ELSE <<128 + (n % 128)>> \o writeUnsignedVarInt(n \div 128)

RECURSIVE encode(_, _, _, _)
RECURSIVE encodeElems(_, _, _, _, _)
RECURSIVE encodeFields(_, _, _, _, _, _)

encodeElems(typ, version, flexible, elems, i) ==
    IF i > Len(elems) THEN <<>>
    ELSE encode(typ, version, flexible, elems[i])
         \o encodeElems(typ, version, flexible, elems, i + 1)

\* The fields of struct v from the i-th on whose tag holds version: the
\* ordinary ones as they are, or (tagged) the ones with a tag id, each behind
\* its id and the size of its payload.
encodeFields(typ, version, flexible, v, i, tagged) ==
    IF i > Len(typ.fields) THEN <<>>
    ELSE Only({
        (IF t = 0 THEN <<>>
         ELSE IF (typ.fields[i].tags[t].TagID >= 0 - 1) # tagged THEN <<>>
         ELSE Only({
             IF tagged
             THEN writeUnsignedVarInt(typ.fields[i].tags[t].TagID)
                  \o writeUnsignedVarInt(Len(b)) \o b
             ELSE b
             : b \in {encode(typ.fields[i].typ, version, flexible, v[typ.fields[i].name])} }))
        \o encodeFields(typ, version, flexible, v, i + 1, tagged)
        : t \in {firstTagInRange(typ.fields[i].tags, version, 1)} })

encode(typ, version, flexible, v) ==
    CASE typ.kind = "bool" -> <<IF v THEN 1 ELSE 0>>
      [] typ.kind = "int8" -> writeInt(v, 1)
      [] typ.kind = "int16" -> writeInt(v, 2)
      [] typ.kind = "int32" -> writeInt(v, 4)
      [] typ.kind = "int64" -> writeInt64(v)
      [] typ.kind = "string" ->
            (IF flexible THEN writeUnsignedVarInt(Len(v) + 1) ELSE writeInt(Len(v), 2)) \o v
      [] typ.kind = "slice" /\ typ.elem.kind = "uint8" ->
            (IF flexible THEN writeUnsignedVarInt(Len(v) + 1) ELSE writeInt(Len(v), 4)) \o v
      [] typ.kind = "slice" /\ typ.elem.kind # "uint8" ->
            (IF flexible THEN writeUnsignedVarInt(v.len + 1) ELSE writeInt(v.len, 4))
            \o encodeElems(typ.elem, version, flexible, v.elems, 1)
      [] typ.kind = "struct" ->
            encodeFields(typ, version, flexible, v, 1, FALSE)
            \o (IF flexible
                THEN writeUnsignedVarInt(Cardinality({i \in DOMAIN typ.fields :
                        /\ firstTagInRange(typ.fields[i].tags, version, 1) # 0
                        /\ typ.fields[i].tags[firstTagInRange(typ.fields[i].tags, version, 1)].TagID
                              >= 0 - 1}))
                     \o encodeFields(typ, version, flexible, v, 1, TRUE)
                ELSE <<>>)

\* The values a message field of a shape is given.
RECURSIVE ValuesOf(_)
RECURSIVE StructValues(_, _)

StructValues(fields, i) ==
    IF i > Len(fields) THEN {<<>>}
    ELSE {[n \in DOMAIN s \cup {fields[i].name} |-> IF n = fields[i].name THEN x ELSE s[n]]
          : s \in StructValues(fields, i + 1), x \in ValuesOf(fields[i].typ)}

ValuesOf(typ) ==
    CASE typ.kind = "bool" -> BOOLEAN
      [] typ.kind = "int8" -> {0 - 128, 0, 127}
      [] typ.kind = "int16" -> {0 - 32768, 258}
      [] typ.kind = "int32" -> {0 - 16909060, 16909060}
      [] typ.kind = "int64" -> {[hi |-> 0 - 1, lo1 |-> 65535, lo0 |-> 65534],
                                [hi |-> 1, lo1 |-> 2, lo0 |-> 772]}
      [] typ.kind = "string" -> SeqsUpTo({65}, MaxElems) \cup {<<255>>}
      [] typ.kind = "slice" /\ typ.elem.kind = "uint8" -> SeqsUpTo({7}, MaxElems) \cup {<<255>>}
      [] typ.kind = "slice" /\ typ.elem.kind # "uint8" ->
            {array(Len(s), s) : s \in SeqsUpTo(ValuesOf(typ.elem), MaxElems)}
      [] typ.kind = "struct" -> StructValues(typ.fields, 1)

InitRoundTrip ==
    /\ \E typ \in RTShapes, version \in 0..MaxVersion, flexible \in BOOLEAN :
         \E v \in ValuesOf(typ) :
           \E data \in {encode(typ, version, flexible, v)} :
            /\ d = Reset(NewDecoder(NewReader(data, FALSE)), NewReader(data, FALSE), Len(data))
            /\ frame = [n |-> Len(data), start |-> 0]
            /\ plan = [typ |-> typ, version |-> version, flexible |-> flexible, fn |-> NoPlan]
            /\ out = [v |-> ZeroOf(typ), log |-> <<>>]
            /\ hist = [msg |-> v]
    /\ op = [kind |-> "Bind", hadErr |-> FALSE]
    /\ maps = Idle /\ unmarshalers = Idle /\ decoders = Idle /\ procs = Idle

SpecRoundTrip == InitRoundTrip /\ [][NextDecode]_vars

\* v with the fields that do not apply at version left at their zero value: a
\* field applies when one of its version ranges holds version and it is
\* ordinary or the mode is flexible.
RECURSIVE Applicable(_, _, _, _)
Applicable(typ, version, flexible, v) ==
    CASE typ.kind = "struct" ->
            [n \in DOMAIN v |->
               Only({ IF /\ \E t \in DOMAIN f.tags :
                               /\ f.tags[t].MinVersion <= version
                               /\ version <= f.tags[t].MaxVersion
                         /\ (flexible \/ \A t \in DOMAIN f.tags : f.tags[t].TagID < 0 - 1)
                      THEN Applicable(f.typ, version, flexible, v[n])
                      ELSE ZeroOf(f.typ)
                      : f \in {typ.fields[i] : i \in {j \in DOMAIN typ.fields :
                                                        typ.fields[j].name = n}} })]
      [] typ.kind = "slice" /\ typ.elem.kind # "uint8" ->
            array(v.len, [i \in DOMAIN v.elems |->
                             Applicable(typ.elem, version, flexible, v.elems[i])])
      [] OTHER -> v

\* C14: decoding the bytes the symmetric encoder wrote for a value at a
\* version and in a mode, with the plan of the same shape, version and mode,
\* sets no error, consumes every byte and yields the value, equal to the one
\* written in every field that applies at that version.
C14_RoundTrip ==
    (Decoded /\ hist # Idle) =>
        /\ d.err = NoErr /\ ~d.panic
        /\ d.remain = 0 /\ d.reader.pos = Len(d.reader.data)
        /\ out.v = Applicable(plan.typ, plan.version, plan.flexible, hist.msg)

\* Rec written and read back at version 1 in flexible mode: the extension
\* field X comes back, and C, which ended at version 0, stays zero.
C14_Witness ==
    /\ Decoded /\ hist # Idle
    /\ plan.typ.name = "Rec" /\ plan.version = 1 /\ plan.flexible
    /\ hist.msg["X"] = 127 /\ out.v["X"] = 127
    /\ hist.msg["B"] = 0 - 32768 /\ out.v["B"] = 0 - 32768
    /\ hist.msg["C"] = 127 /\ out.v["C"] = 0

(***************************************************************************)
(* Claims about the varint readers, checked under Spec on every cursor the *)
(* specification reaches.                                                  *)
(***************************************************************************)
\* The next k bytes of the source exist and all carry the continuation bit.
Continued(k) ==
    /\ Len(d.reader.data) >= d.reader.pos + k
    /\ \A i \in 1..k : Ahead(i) >= 128

\* C15: readVarInt and readUnsignedVarInt set their "cannot decode varint"
\* error only when the continuation bit was set through all 11 groups; a
\* varint cut short by the budget (fewer than 11 groups, none included) is
\* reported as a premature end of input.
C15_VarintErrorOnlyAfterElevenGroups ==
    (d.err = NoErr /\ ~d.panic) =>
        /\ (readUnsignedVarInt(d).d.err = ErrUnsignedVarInt) =>
              (d.remain >= MaxVarintLen /\ Continued(MaxVarintLen))
        /\ (readVarInt(d).d.err = ErrVarInt) =>
              (d.remain >= MaxVarintLen /\ Continued(MaxVarintLen))
        /\ (d.remain < MaxVarintLen /\ Continued(d.remain)) =>
              /\ readUnsignedVarInt(d).d.err \in {EOF, ErrUnexpectedEOF}
              /\ readVarInt(d).d.err \in {EOF, ErrUnexpectedEOF}

\* A varint of k groups lies ahead of the cursor, within budget and source:
\* k - 1 bytes with the continuation bit and one without.
VarintAhead(k) ==
    /\ Avail(k)
    /\ \A i \in 1..(k - 1) : Ahead(i) >= 128
    /\ Ahead(k) < 128

\* The bits of the sum of (group_i & 0x7f) << 7i over the k groups ahead,
\* modulo 2^64: bit j of group i is bit 7i + j, dropped from 64 on.
XBits(k) ==
    {p \in UNION {{7 * (i - 1) + j : j \in {n \in 0..6 : (Ahead(i) \div 2^n) % 2 = 1}}
                  : i \in 1..k} : p < 64}

\* Bit b of a 64-bit word.
UBit(x, b) ==
    IF b < 28 THEN (x.lo \div 2^b) % 2 = 1
    ELSE IF b < 56 THEN (x.mid \div 2^(b - 28)) % 2 = 1
    ELSE (x.hi \div 2^(b - 56)) % 2 = 1

\* C16: for a varint of k <= 11 groups within the budget, readUnsignedVarInt
\* consumes exactly k bytes, sets no error and returns the sum of
\* (group_i & 0x7f) << 7i modulo 2^64; readVarInt consumes the same bytes and
\* returns its zigzag decoding (x >> 1) ^ -(x & 1): bit b of the result is
\* bit b + 1 of x, flipped when bit 0 of x is set.
C16_VarintValue ==
    \A k \in 1..MaxVarintLen :
        VarintAhead(k) =>
            \A x \in {XBits(k)}, u \in {readUnsignedVarInt(d)}, r \in {readVarInt(d)} :
                /\ Took(u, k)
                /\ u.v.lo \in 0..(Limb - 1) /\ u.v.mid \in 0..(Limb - 1) /\ u.v.hi \in 0..255
                /\ \A b \in 0..63 : UBit(u.v, b) = (b \in x)
                /\ Took(r, k)
                /\ \A b \in 0..63 :
                      (UBit(r.v.m, b) # r.v.neg) = (((b + 1) \in x) # (0 \in x))

\* A frame of 11 bytes, ten of them continued, read to its end with no error.
C16_Witness ==
    /\ op.kind = "read" /\ ~op.hadErr
    /\ d.err = NoErr /\ ~d.panic
    /\ frame.n = MaxVarintLen /\ d.remain = 0
    /\ d.reader.pos = frame.start + MaxVarintLen
    /\ \A i \in 1..(MaxVarintLen - 1) : d.reader.data[frame.start + i] >= 128
    /\ d.reader.data[frame.start + MaxVarintLen] = 1

(***************************************************************************)
(* Claims about the order of a struct decode, checked under SpecDecode.    *)
(***************************************************************************)
\* The events of a kind of the root struct, by their place in the log.
RootEvents(kind) ==
    {i \in DOMAIN out.log : out.log[i].ev = kind /\ Len(out.log[i].path) = 0}

\* The ordinary fields of the root struct whose range holds the version, in
\* declaration order.
OrdinaryInRange ==
    SelectSeq(plan.typ.fields, LAMBDA f : InRange(f) /\ TagOf(f).TagID < 0 - 1)

\* C17: a struct decode runs its ordinary fields (TagID < -1) in declaration
\* order before it reads anything of the tag section; an extension field
\* (TagID >= 0) is written only by a tag entry that carries its id, in
\* flexible mode; in non-flexible mode there is no tag section, the extension
\* field is never decoded and the decode consumes nothing past the last
\* ordinary field.
C17_OrdinaryThenTags ==
    (Decoded /\ ~d.panic) =>
        /\ Len(RootFields) = Len(OrdinaryInRange)
        /\ \A i \in DOMAIN RootFields : RootFields[i].name = OrdinaryInRange[i].name
        /\ \A i \in RootEvents("field"), j \in RootEvents("tags") \cup RootEvents("tag") : i < j
        /\ \A j \in RootEvents("tag") : \E t \in RootEvents("tags") : t < j
        /\ \A k \in DOMAIN plan.typ.fields :
              (InRange(plan.typ.fields[k]) /\ TagOf(plan.typ.fields[k]).TagID >= 0) =>
                 /\ \A i \in Writers(plan.typ.fields[k].name) :
                        /\ plan.flexible
                        /\ out.log[i].ev = "tag"
                        /\ out.log[i].tagID = TagOf(plan.typ.fields[k]).TagID
                 /\ (Writers(plan.typ.fields[k].name) = {}) =>
                        out.v[plan.typ.fields[k].name] = ZeroOf(plan.typ.fields[k].typ)
        /\ ~plan.flexible =>
              /\ RootEvents("tags") \cup RootEvents("tag") = {}
              /\ Snapshot(d) = IF Len(RootFields) = 0
                               THEN [err |-> NoErr, remain |-> frame.n, pos |-> 0]
                               ELSE RootFields[Len(RootFields)].after

\* Ext decoded in flexible mode from five bytes: A positionally, then the tag
\* count 1 and a tag entry with id 1 that writes X.
C17_Witness ==
    /\ Decoded /\ ~d.panic /\ d.err = NoErr
    /\ plan.typ.name = "Ext" /\ plan.flexible
    /\ frame.n = 5 /\ d.remain = 0
    /\ out.v["A"] # 0 /\ out.v["X"] # 0
    /\ \E i \in RootEvents("tag") :
          out.log[i].known /\ out.log[i].name = "X" /\ out.log[i].tagID = 1

(***************************************************************************)
(* Claims about Read, discard and writeTo, checked under Spec on every     *)
(* cursor the specification reaches.                                       *)
(***************************************************************************)
\* C18: when the source returns an error from a read that decoder.Read
\* delegated to it (no sticky error, budget left), Read records that error in
\* the sticky slot, and the next Read returns it without asking the source.
C18_ReadRecordsSourceError ==
    (d.err = NoErr /\ ~d.panic /\ d.remain > 0) =>
        \A n \in Counts : \A r \in {Read(d, n)} :
            (r.err # NoErr) =>
                /\ r.d.err = r.err
                /\ Read(r.d, n) = [d |-> r.d, n |-> 0, err |-> r.err, b |-> <<>>]

\* C19: discard(n) with no sticky error, 0 <= n <= remaining and a source
\* holding at least n more bytes skips exactly n bytes: the budget drops by
\* n, the source advances by n, no error is set and the byte after the
\* skipped ones, when the frame and the source hold one, is the next byte
\* read; for a source with Discard and for one drained through a sink.
C19_DiscardSkipsExactlyN ==
    (d.err = NoErr /\ ~d.panic) =>
        \A n \in Counts :
            (n <= d.remain /\ Len(d.reader.data) >= d.reader.pos + n) =>
                \A r \in {discard(d, n)} :
                    /\ r.remain = d.remain - n
                    /\ r.reader.pos = d.reader.pos + n
                    /\ r.err = NoErr /\ ~r.panic
                    /\ (d.remain > n /\ Len(d.reader.data) > d.reader.pos + n) =>
                          /\ readByte(r).v = Ahead(n + 1)
                          /\ readByte(r).d.err = NoErr

\* The bytes the cursor can still obtain: what the budget and the source hold.
Obtainable == Min(d.remain, Len(d.reader.data) - d.reader.pos)

\* C20: writeTo(w, n) with no sticky error copies exactly the next n bytes to
\* the sink when the budget and the source hold them, sets no error and
\* leaves remaining = old remaining - n, the byte after the copied range
\* being the next one read; when fewer than n bytes can be obtained it copies
\* those, sets the sticky error to unexpected EOF (not EOF) and leaves
\* remaining reduced by the number of bytes copied.
C20_WriteToCopiesExactly ==
    (d.err = NoErr /\ ~d.panic) =>
        \A n \in Counts : \A r \in {writeTo(d, n)}, a \in {Obtainable} :
            /\ ~r.d.panic
            /\ r.v = SubSeq(d.reader.data, d.reader.pos + 1, d.reader.pos + Min(n, a))
            /\ r.d.reader.pos = d.reader.pos + Min(n, a)
            /\ r.d.remain = d.remain - Min(n, a)
            /\ IF n <= a
               THEN /\ r.d.err = NoErr
                    /\ (a > n) => \A b \in {readByte(r.d)} :
                                     b.v = Ahead(n + 1) /\ b.d.err = NoErr
               ELSE r.d.err = ErrUnexpectedEOF

\* A writeTo that could copy nothing of what it was asked for in a frame
\* that still had budget: unexpected EOF, budget and source where they were.
C20_Witness ==
    /\ op.kind = "read" /\ ~op.hadErr
    /\ d.err = ErrUnexpectedEOF /\ ~d.panic
    /\ frame.n > 0 /\ d.remain = frame.n
    /\ d.reader.pos = frame.start

=============================================================================
